---- MODULE Spec2Model ----
(***************************************************************************)
(* A model of git_dig.py: the dependency walker dig, the hunk extractor    *)
(* parse_hunks, the attribution reader get_blame_line / find_revs and the  *)
(* correlator blame_hunks.                                                 *)
(*                                                                         *)
(* The external collaborator (git) is the environment: what a diff, a      *)
(* blame or a parent enumeration returns is chosen nondeterministically    *)
(* from bounded sets, and the same query always gets the same answer.      *)
(***************************************************************************)
EXTENDS Integers, Sequences, FiniteSets, TLC

(***************************************************************************)
(* Bounds of the model.                                                    *)
(***************************************************************************)
NumRevs == 2            \* revisions of the repository
MaxDepthBound == 2      \* max_depth is drawn from 0..MaxDepthBound
MaxLines == 4           \* lines of a blame stream, and the last origin line
MaxCount == 3           \* origin lines of one hunk
MaxBlameHunks == 3      \* hunks handed to one blame_hunks call
MaxFiles == 2           \* files of one diff

(***************************************************************************)
(* Revision identifiers.  git prints a boundary revision with a leading    *)
(* '^'; an identifier is modelled as the sequence of its parts, so that    *)
(* startswith("^") and depend[1:] are computed on it.                      *)
(***************************************************************************)
Caret == "^"
RevNames == <<"a", "b", "c", "d">>
Revs == {RevNames[i] : i \in 1 .. NumRevs}
PlainIds == {<<r>> : r \in Revs}
BoundaryIds == {<<Caret, r>> : r \in Revs}
Ids == PlainIds \cup BoundaryIds
Working == <<"WORKING">>

\* The revision an identifier names, with or without the sentinel.
RevOf(id) == id[Len(id)]

(***************************************************************************)
(* OrderedSet: a dict used as a set; iteration is in insertion order and   *)
(* adding a present element keeps its place.                               *)
(***************************************************************************)
Elems(s) == {s[i] : i \in 1 .. Len(s)}

\* an add that puts a new element first
OrderedAddFront(s, e) == IF e \in Elems(s) THEN s ELSE <<e>> \o s

OrderedAdd(s, e) == IF e \in Elems(s) THEN s ELSE Append(s, e)

RECURSIVE OrderedUnion(_, _)
OrderedUnion(s, t) ==
    IF t = <<>> THEN s ELSE OrderedUnion(OrderedAdd(s, Head(t)), Tail(t))

NoDup(s) == \A i, j \in 1 .. Len(s) : s[i] = s[j] => i = j

(***************************************************************************)
(* State.                                                                  *)
(*   pc        position of the program: "run", "done"                      *)
(*   maxDepth  the max_depth argument of the top-level dig call            *)
(*   stack     the dig calls in progress, innermost last; a frame holds    *)
(*             base, depth, the position in the call ("call": not yet      *)
(*             entered the body, "loop": iterating over depends), depends, *)
(*             the index of the next candidate, and line: the printed line *)
(*             whose candidate this call expands (0 for the top call)      *)
(*   seen      the set shared by all calls of one traversal                *)
(*   printed   the lines print_depend has written, in order                *)
(*   expanded  the expansions done (get_parents, parse_hunks, blame_hunks):*)
(*             one entry per dig body entered                              *)
(*   repo      what the repository answers: for each revision queried so   *)
(*             far, the deps of the hunks of its diffs after blame_hunks   *)
(***************************************************************************)
VARIABLES pc, maxDepth, stack, seen, printed, expanded, repo

walkerVars == <<pc, maxDepth, stack, seen, printed, expanded, repo>>

(***************************************************************************)
(* State of one find_revs call (the attribution reader and the correlator  *)
(* of one (parent, path) group).                                           *)
(*   fHunks    the origin ranges (start, count) of the hunks of the group  *)
(*   fShowName whether blame prints the file name column before the number *)
(*   fr        the locals of find_revs: the hunk and loop it is in, the    *)
(*             iterations left, recover, line_number, the deps of every    *)
(*             hunk, and where it is: "read", "returned" or the exception  *)
(*   fStream   the lines read from the blame stream so far                 *)
(*   fAdded    for every hunk, the stream positions whose revision was     *)
(*             added to its deps                                           *)
(***************************************************************************)
VARIABLES fHunks, fShowName, fr, fStream, fAdded

findVars == <<fHunks, fShowName, fr, fStream, fAdded>>

(***************************************************************************)
(* State of one blame_hunks call.                                          *)
(*   bHunks    the hunks given, each with its (parent, path) and its       *)
(*             origin range                                                *)
(*   bCodes    the exit code of git blame for every (parent, path)         *)
(*   bKeys     the keys of by_parent_path still to be blamed, in order     *)
(*   bDeps     the deps of every hunk given                                *)
(*   bAt       "loop", "returned", or "raised"                             *)
(***************************************************************************)
VARIABLES bHunks, bCodes, bKeys, bDeps, bAt

blameVars == <<bHunks, bCodes, bKeys, bDeps, bAt>>

(***************************************************************************)
(* State of one parse_hunks call.                                          *)
(*   dFiles    the files of the diff that git printed                      *)
(*   dLines    the lines of the diff                                       *)
(*   dPos      the lines read so far                                       *)
(*   dPath     the local path: None, Deletion or the path of a file        *)
(*   dHunks    the hunks collected                                         *)
(*   dAt       "scan", "returned" or "AssertionError"                      *)
(***************************************************************************)
VARIABLES dFiles, dLines, dPos, dPath, dHunks, dAt

parseVars == <<dFiles, dLines, dPos, dPath, dHunks, dAt>>

(***************************************************************************)
(* The change that the base revision makes, for the traversals that start  *)
(* from the text of a file.                                                *)
(*   eAuthors  for every line of the file at the parent of the base, the   *)
(*             revision that last touched it (what git blame prints)       *)
(*   eChange   the lines that the base modifies: <<first line, count>>     *)
(***************************************************************************)
VARIABLES eAuthors, eChange

changeVars == <<eAuthors, eChange>>

vars == <<pc, maxDepth, stack, seen, printed, expanded, repo,
          fHunks, fShowName, fr, fStream, fAdded,
          bHunks, bCodes, bKeys, bDeps, bAt,
          dFiles, dLines, dPos, dPath, dHunks, dAt,
          eAuthors, eChange>>

otherThanWalker == <<findVars, blameVars, parseVars, changeVars>>

otherThanFind == <<walkerVars, blameVars, parseVars, changeVars>>

otherThanBlame == <<walkerVars, findVars, parseVars, changeVars>>

otherThanParse == <<walkerVars, findVars, blameVars, changeVars>>

\* What the repository answers for one revision: the diffs against its
\* parents yield no hunk, one hunk or two hunks, and blame attributes the
\* origin lines of a hunk to no revision (a pure insertion) or to one.
HunkDeps == {<<>>} \cup {<<id>> : id \in Ids}

HunkLists ==
    {<<>>} \cup {<<h>> : h \in HunkDeps} \cup {<<g, h>> : g, h \in HunkDeps}

\* dig, line 333: the body runs only below the depth limit.
WithinDepthOff(depth, max_depth) == depth <= max_depth

WithinDepth(depth, max_depth) == depth < max_depth

\* dig, lines 341-343: depends |= hunk.deps over the hunks in order.
RECURSIVE Depends(_)
Depends(hunks) ==
    IF hunks = <<>> THEN <<>>
    ELSE OrderedUnion(Depends(SubSeq(hunks, 1, Len(hunks) - 1)), hunks[Len(hunks)])

\* dig, line 345.
IsSeenNever(depend, seenSet) == FALSE

IsSeen(depend, seenSet) == depend \in seenSet

\* dig, line 346.
IsBoundaryNever(depend) == FALSE

IsBoundary(depend) == Head(depend) = Caret

\* dig, line 348: depend[1:].
Strip(depend) == Tail(depend)

\* the for loop of line 344 has run out of candidates
ExhaustedLate(frame) == frame.idx > Len(frame.depends) + 1

Exhausted(frame) == frame.idx > Len(frame.depends)

Top == stack[Len(stack)]

Frame(base, depth, line) ==
    [base |-> base, depth |-> depth, at |-> "call", depends |-> <<>>, idx |-> 0,
     line |-> line]

SetTop(f) == [stack EXCEPT ![Len(stack)] = f]

Pop == SubSeq(stack, 1, Len(stack) - 1)

Line(depend, depth, is_seen) ==
    [text |-> IF IsBoundary(depend) THEN Strip(depend) ELSE depend,
     depth |-> depth, is_seen |-> is_seen, cand |-> depend]

\* Revision names are opaque, so the revisions are named in the order in
\* which the traversal first meets them: the base is the first name, and an
\* answer of the repository introduces the unused names in order.
RECURSIVE RevsIn(_)
RevsIn(hunks) ==
    IF hunks = <<>> THEN {}
    ELSE {RevOf(id) : id \in Elems(Head(hunks))} \cup RevsIn(Tail(hunks))

Known ==
    UNION {{RevOf(repo[i].rev)} \cup RevsIn(repo[i].hunks) : i \in 1 .. Len(repo)}
    \cup {RevOf(stack[1].base)}

RECURSIVE NewRevs(_, _)
NewRevs(ids, known) ==
    IF ids = <<>> THEN <<>>
    ELSE IF RevOf(Head(ids)) \in known THEN NewRevs(Tail(ids), known)
    ELSE <<RevOf(Head(ids))>> \o NewRevs(Tail(ids), known \cup {RevOf(Head(ids))})

InOrderOfMeeting(hunks) ==
    LET k == Cardinality(Known \cap Revs)
        new == NewRevs(Depends(hunks), Known)
    IN  \A i \in 1 .. Len(new) : new[i] = RevNames[k + i]

WalkerInit ==
    /\ pc = "run"
    /\ maxDepth \in 0 .. MaxDepthBound
    /\ \E b \in {<<RevNames[1]>>, Working} : stack = <<Frame(b, 0, 0)>>
    /\ seen = {}
    /\ printed = <<>>
    /\ expanded = <<>>
    /\ repo = <<>>

WalkerIdle ==
    /\ pc = "idle"
    /\ maxDepth = 0
    /\ stack = <<>>
    /\ seen = {}
    /\ printed = <<>>
    /\ expanded = <<>>
    /\ repo = <<>>

\* dig, lines 333-343: below the limit the call enumerates the parents (not
\* for WORKING), diffs, blames and unions the deps of the hunks.
DigExpand ==
    /\ pc = "run" /\ stack # <<>>
    /\ Top.at = "call"
    /\ WithinDepth(Top.depth, maxDepth)
    /\ \E hunks \in HunkLists :
         /\ InOrderOfMeeting(hunks)
         /\ \A i \in 1 .. Len(repo) : repo[i].rev = Top.base => repo[i].hunks = hunks
         /\ repo' = IF \E i \in 1 .. Len(repo) : repo[i].rev = Top.base
                    THEN repo
                    ELSE Append(repo, [rev |-> Top.base, hunks |-> hunks])
         /\ stack' = SetTop([Top EXCEPT !.at = "loop", !.depends = Depends(hunks),
                                        !.idx = 1])
    /\ expanded' = Append(expanded, [base |-> Top.base, depth |-> Top.depth,
                                     parents |-> Top.base # Working,
                                     line |-> Top.line])
    /\ UNCHANGED <<pc, maxDepth, seen, printed>>
    /\ UNCHANGED otherThanWalker

\* dig, line 333, else: at the limit the call returns at once.
DigAtLimit ==
    /\ pc = "run" /\ stack # <<>>
    /\ Top.at = "call"
    /\ ~WithinDepth(Top.depth, maxDepth)
    /\ stack' = Pop
    /\ pc' = IF Pop = <<>> THEN "done" ELSE "run"
    /\ UNCHANGED <<maxDepth, seen, printed, expanded, repo>>
    /\ UNCHANGED otherThanWalker

\* dig, lines 345-348: a boundary candidate is marked seen and printed.
DigBoundary ==
    /\ pc = "run" /\ stack # <<>>
    /\ Top.at = "loop" /\ Top.idx <= Len(Top.depends)
    /\ LET depend == Top.depends[Top.idx]
           is_seen == IsSeen(depend, seen)
       IN  /\ IsBoundary(depend)
           /\ seen' = seen \cup {depend}
           /\ printed' = Append(printed, Line(depend, Top.depth, is_seen))
           /\ stack' = SetTop([Top EXCEPT !.idx = @ + 1])
    /\ UNCHANGED <<pc, maxDepth, expanded, repo>>
    /\ UNCHANGED otherThanWalker

\* dig, lines 345, 350-351: a plain candidate already in seen is printed only.
DigFollowed ==
    /\ pc = "run" /\ stack # <<>>
    /\ Top.at = "loop" /\ Top.idx <= Len(Top.depends)
    /\ LET depend == Top.depends[Top.idx]
       IN  /\ ~IsBoundary(depend)
           /\ IsSeen(depend, seen)
           /\ printed' = Append(printed, Line(depend, Top.depth, TRUE))
           /\ stack' = SetTop([Top EXCEPT !.idx = @ + 1])
    /\ UNCHANGED <<pc, maxDepth, seen, expanded, repo>>
    /\ UNCHANGED otherThanWalker

\* dig, lines 345, 350-353: a plain candidate not in seen is printed, added
\* to seen and dug at depth + 1.  The set handed down holds depend, so the
\* callee's "if not seen" (line 331) keeps it: all calls share one set.
DigRecurse ==
    /\ pc = "run" /\ stack # <<>>
    /\ Top.at = "loop" /\ Top.idx <= Len(Top.depends)
    /\ LET depend == Top.depends[Top.idx]
       IN  /\ ~IsBoundary(depend)
           /\ ~IsSeen(depend, seen)
           /\ printed' = Append(printed, Line(depend, Top.depth, FALSE))
           /\ seen' = seen \cup {depend}
           /\ stack' = Append(SetTop([Top EXCEPT !.idx = @ + 1]),
                              Frame(depend, Top.depth + 1, Len(printed) + 1))
    /\ UNCHANGED <<pc, maxDepth, expanded, repo>>
    /\ UNCHANGED otherThanWalker

\* the for loop of line 344 ends and the call returns.
DigReturn ==
    /\ pc = "run" /\ stack # <<>>
    /\ Top.at = "loop" /\ Exhausted(Top)
    /\ stack' = Pop
    /\ pc' = IF Pop = <<>> THEN "done" ELSE "run"
    /\ UNCHANGED <<maxDepth, seen, printed, expanded, repo>>
    /\ UNCHANGED otherThanWalker

WalkerNext ==
    \/ DigExpand
    \/ DigAtLimit
    \/ DigBoundary
    \/ DigFollowed
    \/ DigRecurse
    \/ DigReturn


(***************************************************************************)
(* The attribution reader.                                                 *)
(*                                                                         *)
(* A blame line "rev [name] number) text" is modelled by its revision and  *)
(* by the words between the first space and the first ")": a word is a     *)
(* number (int() accepts it) or not.                                       *)
(***************************************************************************)
None == <<>>

Num(n) == [int |-> TRUE, val |-> n]

Word == [int |-> FALSE, val |-> 0]

\* parse_blame_line, lines 259-268: int(number), and on ValueError the int of
\* the last word of number; the second ValueError leaves the function.
ParseBlameLine(line) ==
    LET number == line.field
        n == Len(number)
    IN  IF n = 1 /\ number[1].int
        THEN [ok |-> TRUE, rev |-> line.rev, number |-> number[1].val]
        ELSE IF n >= 1 /\ number[n].int
        THEN [ok |-> TRUE, rev |-> line.rev, number |-> number[n].val]
        ELSE [ok |-> FALSE, rev |-> line.rev, number |-> 0]

\* get_blame_line without the recovery: the counter is kept and the
\* continuity assertion is made on every line.
GetBlameLineStrict(line, recover, line_number) ==
    LET p == ParseBlameLine(line)
    IN  IF ~p.ok
        THEN [recover |-> TRUE, line_number |-> line_number, rev |-> None,
              raised |-> FALSE]
        ELSE [recover |-> FALSE, line_number |-> <<line_number[1] + 1>>,
              rev |-> <<p.rev>>, raised |-> line_number[1] + 1 # p.number]

\* get_blame_line without the assertion of line 286
GetBlameLineLax(line, recover, line_number) ==
    LET p == ParseBlameLine(line)
    IN  IF ~p.ok
        THEN [recover |-> TRUE, line_number |-> None, rev |-> None,
              raised |-> FALSE]
        ELSE IF recover
        THEN [recover |-> FALSE, line_number |-> <<p.number>>, rev |-> <<p.rev>>,
              raised |-> FALSE]
        ELSE [recover |-> FALSE, line_number |-> <<line_number[1] + 1>>,
              rev |-> <<p.rev>>, raised |-> FALSE]

\* get_blame_line, lines 271-287, for the line that next(reader) returned.
\* raised: the assertion of line 286 failed.
GetBlameLine(line, recover, line_number) ==
    LET p == ParseBlameLine(line)
    IN  IF ~p.ok
        THEN [recover |-> TRUE, line_number |-> None, rev |-> None,
              raised |-> FALSE]
        ELSE IF recover
        THEN [recover |-> FALSE, line_number |-> <<p.number>>, rev |-> <<p.rev>>,
              raised |-> FALSE]
        ELSE [recover |-> FALSE, line_number |-> <<line_number[1] + 1>>,
              rev |-> <<p.rev>>, raised |-> line_number[1] + 1 # p.number]

(***************************************************************************)
(* find_revs, lines 290-306.  A hunk is given by hunk.first = <<start,     *)
(* count>>.  The locals: h the hunk of the outer loop, phase the inner     *)
(* loop ("skip": line 298, "take": line 301), left its iterations still    *)
(* to run.                                                                 *)
(***************************************************************************)
\* Runs the loop headers up to the next get_blame_line call, the return or
\* the exception: range(n) of n <= 0 is empty; "lines" of line 297 is
\* computed from line_number, which is None after a broken line.
RECURSIVE Settle(_, _)
Settle(f, hunks) ==
    IF f.at # "read" \/ f.left > 0 THEN f
    ELSE IF f.phase = "skip"
    THEN Settle([f EXCEPT !.phase = "take", !.left = hunks[f.h][2]], hunks)
    ELSE IF f.h = Len(hunks) THEN [f EXCEPT !.at = "returned"]
    ELSE IF f.line_number = None THEN [f EXCEPT !.h = @ + 1, !.at = "TypeError"]
    ELSE Settle([f EXCEPT !.h = @ + 1, !.phase = "skip",
                          !.left = hunks[f.h + 1][1] - f.line_number[1] - 1], hunks)

\* lines 292-297: up to the first read.
FrStart(hunks) ==
    Settle([h |-> 0, phase |-> "take", left |-> 0, recover |-> FALSE,
            line_number |-> <<0>>, deps |-> [i \in 1 .. Len(hunks) |-> <<>>],
            at |-> "read"], hunks)

\* one get_blame_line call whose revision is added in both loops
FrReadSkipToo(f, hunks, line) ==
    LET g == GetBlameLine(line, f.recover, f.line_number)
    IN  IF g.raised THEN [f EXCEPT !.at = "AssertionError"]
        ELSE Settle([f EXCEPT !.recover = g.recover,
                              !.line_number = g.line_number,
                              !.left = @ - 1,
                              !.deps[f.h] = IF ~g.recover
                                            THEN OrderedAdd(@, g.rev[1])
                                            ELSE @], hunks)

\* lines 299 and 302-304: one get_blame_line call and what follows it.
FrRead(f, hunks, line) ==
    LET g == GetBlameLine(line, f.recover, f.line_number)
    IN  IF g.raised THEN [f EXCEPT !.at = "AssertionError"]
        ELSE Settle([f EXCEPT !.recover = g.recover,
                              !.line_number = g.line_number,
                              !.left = @ - 1,
                              !.deps[f.h] = IF f.phase = "take" /\ ~g.recover
                                            THEN OrderedAdd(@, g.rev[1])
                                            ELSE @], hunks)

\* lines 305-306: next(reader) raised StopIteration.
FrEof(f) == [f EXCEPT !.at = "returned"]

\* find_revs on a whole stream.
RECURSIVE FrRun(_, _, _)
FrRun(f, hunks, rest) ==
    IF f.at # "read" THEN f
    ELSE IF rest = <<>> THEN FrEof(f)
    ELSE FrRun(FrRead(f, hunks, Head(rest)), hunks, Tail(rest))

FindRevs(stream, hunks) == FrRun(FrStart(hunks), hunks, stream)

\* The origin ranges of the hunks of one file: diff gives them in ascending
\* order and disjoint.  A group has no, one or two hunks.
\* A range that starts at line 0 is the empty range of an empty file.
Firsts ==
    {x \in (0 .. MaxLines) \X (0 .. MaxCount) :
        /\ x[1] + x[2] - 1 <= MaxLines
        /\ x[1] = 0 => x[2] = 0}

Ascending(a, b) == b[1] > a[1] /\ b[1] >= a[1] + a[2]

GroupHunkLists ==
    {<<>>} \cup {<<a>> : a \in Firsts}
    \cup {<<x[1], x[2]>> : x \in {y \in Firsts \X Firsts : Ascending(y[1], y[2])}}

\* The lines blame can print as physical line p: a well-formed line of some
\* revision numbered p, or p - 1 (the line before was an extra line: a
\* carriage return in the file's text breaks a line in two), or a line whose
\* number cannot be parsed.
Garbage == <<"'">>

Field(n) == IF fShowName THEN <<Word, Num(n)>> ELSE <<Num(n)>>

GoodLines(p) ==
    {[rev |-> r, field |-> Field(n)] : r \in PlainIds, n \in {p - 1, p} \ {0}}

BrokenLines ==
    {[rev |-> Garbage, field |-> <<>>], [rev |-> Garbage, field |-> <<Word>>]}

FindRevsInit ==
    /\ fHunks \in GroupHunkLists
    /\ fShowName \in BOOLEAN
    /\ fr = FrStart(fHunks)
    /\ fStream = <<>>
    /\ fAdded = [i \in 1 .. Len(fHunks) |-> {}]

FindRevsIdle ==
    /\ fHunks = <<>>
    /\ fShowName = FALSE
    /\ fr = FrStart(<<>>)
    /\ fStream = <<>>
    /\ fAdded = <<>>

\* one get_blame_line call that gets a line
FindRevsRead ==
    /\ fr.at = "read"
    /\ Len(fStream) < MaxLines
    /\ \E line \in GoodLines(Len(fStream) + 1) \cup BrokenLines :
         LET g == GetBlameLine(line, fr.recover, fr.line_number)
         IN  /\ fr' = FrRead(fr, fHunks, line)
             /\ fStream' = Append(fStream, line)
             /\ fAdded' = IF fr.phase = "take" /\ ~g.raised /\ ~g.recover
                          THEN [fAdded EXCEPT ![fr.h] = @ \cup {Len(fStream) + 1}]
                          ELSE fAdded
    /\ UNCHANGED <<fHunks, fShowName>>
    /\ UNCHANGED otherThanFind

\* one get_blame_line call at the end of the stream
FindRevsEof ==
    /\ fr.at = "read"
    /\ fr' = FrEof(fr)
    /\ UNCHANGED <<fHunks, fShowName, fStream, fAdded>>
    /\ UNCHANGED otherThanFind

FindRevsNext ==
    \/ FindRevsRead
    \/ FindRevsEof

(***************************************************************************)
(* blame_hunks, lines 309-320, with blame (158-165) and popen (121-132).   *)
(***************************************************************************)
ExpectCode == 0
SigPipe == -13
GenericFailure == 128

\* the exit codes of git blame: success, killed by SIGPIPE, the generic
\* failure (no such path), and 1 for any other code
Codes == {ExpectCode, SigPipe, GenericFailure, 1}

\* (parent, path): two files of one parent and one file of another
Keys == {<<"p", "f">>, <<"p", "g">>, <<"q", "f">>}

\* What git blame -s prints for a (parent, path): nothing when it fails with
\* the generic failure code, and else the lines of the file, each line last
\* touched by a revision of its own.
Author(key, n) == <<key[1], key[2], n>>

Stream(key, code) ==
    IF code = GenericFailure THEN <<>>
    ELSE [n \in 1 .. MaxLines |-> [rev |-> Author(key, n), field |-> <<Num(n)>>]]

\* lines 311-313: the keys of by_parent_path in insertion order, and the
\* hunks of a key in the order given.
RECURSIVE KeyOrder(_)
KeyOrder(hunks) ==
    IF hunks = <<>> THEN <<>>
    ELSE OrderedAdd(KeyOrder(SubSeq(hunks, 1, Len(hunks) - 1)), hunks[Len(hunks)].key)

RECURSIVE Members(_, _, _)
Members(hunks, key, n) ==
    IF n = 0 THEN <<>>
    ELSE IF hunks[n].key = key THEN Append(Members(hunks, key, n - 1), n)
    ELSE Members(hunks, key, n - 1)

\* line 320: the codes that the handler swallows
SwallowedAll(code) == TRUE

Swallowed(code) == code \in {SigPipe, GenericFailure}

\* lines 316-317 and 126-132 for one key: find_revs on the hunks of the key,
\* then the exit code is looked at unless find_revs raised.
BlameKey(key, hunks, codes, deps) ==
    LET idx == Members(hunks, key, Len(hunks))
        f == FindRevs(Stream(key, codes[key]), [j \in 1 .. Len(idx) |-> hunks[idx[j]].first])
        newDeps == [i \in 1 .. Len(hunks) |->
                       IF hunks[i].key = key
                       THEN f.deps[CHOOSE j \in 1 .. Len(idx) : idx[j] = i]
                       ELSE deps[i]]
    IN  [deps |-> newDeps,
         result |-> IF f.at # "returned" THEN f.at
                    ELSE IF codes[key] = ExpectCode THEN "ok"
                    ELSE "CalledProcessError"]

\* lines 314-320: the loop over the keys is inside the try, so a
\* CalledProcessError ends it; the handler re-raises all but the swallowed
\* codes.
RECURSIVE BlameRun(_, _, _, _)
BlameRun(keys, hunks, codes, deps) ==
    IF keys = <<>> THEN [deps |-> deps, at |-> "returned"]
    ELSE LET b == BlameKey(Head(keys), hunks, codes, deps)
         IN  IF b.result = "ok" THEN BlameRun(Tail(keys), hunks, codes, b.deps)
             ELSE IF b.result = "CalledProcessError" /\ Swallowed(codes[Head(keys)])
             THEN [deps |-> b.deps, at |-> "returned"]
             ELSE [deps |-> b.deps, at |-> "raised"]

NoDeps(hunks) == [i \in 1 .. Len(hunks) |-> <<>>]

BlameHunks(hunks, codes) == BlameRun(KeyOrder(hunks), hunks, codes, NoDeps(hunks))

\* The hunks of a call: of each file the origin ranges ascend.
BlameFirsts == {<<0, 0>>, <<1, 1>>, <<2, 2>>}

RECURSIVE SeqsUpTo(_, _)
SeqsUpTo(S, n) ==
    IF n = 0 THEN {<<>>}
    ELSE LET shorter == SeqsUpTo(S, n - 1)
         IN  shorter \cup
             {Append(q, e) : q \in {x \in shorter : Len(x) = n - 1}, e \in S}

BlameHunkLists ==
    {hs \in SeqsUpTo([key : Keys, first : BlameFirsts], MaxBlameHunks) :
        \A i, j \in 1 .. Len(hs) :
            (i < j /\ hs[i].key = hs[j].key) => Ascending(hs[i].first, hs[j].first)}

BlameInit ==
    /\ bHunks \in BlameHunkLists
    /\ bCodes \in [Keys -> Codes]
    /\ bKeys = KeyOrder(bHunks)
    /\ bDeps = NoDeps(bHunks)
    /\ bAt = "loop"

BlameIdle ==
    /\ bHunks = <<>>
    /\ bCodes = [k \in Keys |-> ExpectCode]
    /\ bKeys = <<>>
    /\ bDeps = <<>>
    /\ bAt = "idle"

\* one key blamed, git blame exited with 0
BlameGroupOk ==
    /\ bAt = "loop" /\ bKeys # <<>>
    /\ LET b == BlameKey(Head(bKeys), bHunks, bCodes, bDeps)
       IN  /\ b.result = "ok"
           /\ bDeps' = b.deps
           /\ bKeys' = Tail(bKeys)
    /\ UNCHANGED <<bHunks, bCodes, bAt>>
    /\ UNCHANGED otherThanBlame

\* one key blamed, git blame exited with a swallowed code: blame_hunks returns
BlameGroupSwallowed ==
    /\ bAt = "loop" /\ bKeys # <<>>
    /\ LET b == BlameKey(Head(bKeys), bHunks, bCodes, bDeps)
       IN  /\ b.result = "CalledProcessError"
           /\ Swallowed(bCodes[Head(bKeys)])
           /\ bDeps' = b.deps
           /\ bAt' = "returned"
    /\ UNCHANGED <<bHunks, bCodes, bKeys>>
    /\ UNCHANGED otherThanBlame

\* one key blamed, and find_revs or the exit code raised: blame_hunks raises
BlameGroupRaised ==
    /\ bAt = "loop" /\ bKeys # <<>>
    /\ LET b == BlameKey(Head(bKeys), bHunks, bCodes, bDeps)
       IN  /\ b.result # "ok"
           /\ ~(b.result = "CalledProcessError" /\ Swallowed(bCodes[Head(bKeys)]))
           /\ bDeps' = b.deps
           /\ bAt' = "raised"
    /\ UNCHANGED <<bHunks, bCodes, bKeys>>
    /\ UNCHANGED otherThanBlame

\* no key is left: blame_hunks returns
BlameReturn ==
    /\ bAt = "loop" /\ bKeys = <<>>
    /\ bAt' = "returned"
    /\ UNCHANGED <<bHunks, bCodes, bKeys, bDeps>>
    /\ UNCHANGED otherThanBlame

BlameNext ==
    \/ BlameGroupOk
    \/ BlameGroupSwallowed
    \/ BlameGroupRaised
    \/ BlameReturn

(***************************************************************************)
(* The hunk extractor: parse_hunks, lines 234-256, Hunk.from_line and      *)
(* parse_hunk_field.                                                       *)
(*                                                                         *)
(* A line of the diff is modelled by the prefix that startswith tests and  *)
(* by what follows it; file is the file of the diff the line belongs to    *)
(* (the parser does not read it).  A range "-5" or "-5,3" is the sequence  *)
(* of its numbers.                                                         *)
(***************************************************************************)
Deletion == <<"_deletion">>

\* parse_hunk_field with a missing count read as 0
ParseHunkFieldZero(field) == IF Len(field) < 2 THEN Append(field, 0) ELSE field

\* parse_hunk_field, lines 195-201: a missing count is 1.
ParseHunkField(field) == IF Len(field) < 2 THEN Append(field, 1) ELSE field

\* Hunk.from_line, lines 217-228; line is the number of the header line.
HunkFromLine(path, line, n) ==
    [path |-> path, first |-> ParseHunkField(line.rest[1]),
     second |-> ParseHunkField(line.rest[2]), deps |-> <<>>, line |-> n]

\* line 250: a hunk header is skipped while path is _deletion
SkipsNever(path) == FALSE

Skips(path) == path = Deletion

\* What git diff --unified=1 prints for one file: the pre-image and the
\* post-image line, and for every hunk its header and a line of its body.
\* An added file has the pre-image /dev/null and the origin range 0,0; a
\* deleted file has the post-image /dev/null and the target range 0,0.
Paths == {"f", "g", "h"}

Header(first, second) == [first |-> first, second |-> second]

FileShapes ==
    [kind : {"modified"}, path : Paths,
     headers : {<<Header(a, b)>> : a, b \in {<<1>>, <<1, 2>>}}
               \cup {<<Header(<<1, 2>>, <<1>>), Header(a, b)>> : a, b \in {<<3>>, <<3, 2>>}}]
    \cup [kind : {"added"}, path : Paths,
          headers : {<<Header(<<0, 0>>, b)>> : b \in {<<1>>, <<1, 2>>}}]
    \cup [kind : {"deleted"}, path : Paths,
          headers : {<<Header(a, <<0, 0>>)>> : a \in {<<1>>, <<1, 2>>}}]

RECURSIVE RenderHeaders(_, _)
RenderHeaders(headers, i) ==
    IF headers = <<>> THEN <<>>
    ELSE <<[head |-> "@@ -", rest |-> <<Head(headers).first, Head(headers).second>>,
            file |-> i],
           [head |-> IF Head(headers).second = <<0, 0>> THEN "-" ELSE "+",
            rest |-> <<>>, file |-> i]>>
         \o RenderHeaders(Tail(headers), i)

RenderFile(f, i) ==
    <<[head |-> "diff --git ", rest |-> <<f.path>>, file |-> i],
      [head |-> IF f.kind = "added" THEN "--- /dev/null" ELSE "--- a/",
       rest |-> <<f.path>>, file |-> i],
      [head |-> IF f.kind = "deleted" THEN "+++ /dev/null" ELSE "+++ b/",
       rest |-> <<f.path>>, file |-> i]>>
    \o RenderHeaders(f.headers, i)

RECURSIVE Render(_, _)
Render(files, n) ==
    IF n = 0 THEN <<>> ELSE Render(files, n - 1) \o RenderFile(files[n], n)

Diffs ==
    {fs \in SeqsUpTo(FileShapes, MaxFiles) :
        \A i, j \in 1 .. Len(fs) : fs[i].path = fs[j].path => i = j}

ParseInit ==
    /\ dFiles \in Diffs
    /\ dLines = Render(dFiles, Len(dFiles))
    /\ dPos = 0
    /\ dPath = None
    /\ dHunks = <<>>
    /\ dAt = "scan"

ParseIdle ==
    /\ dFiles = <<>>
    /\ dLines = <<>>
    /\ dPos = 0
    /\ dPath = None
    /\ dHunks = <<>>
    /\ dAt = "idle"

NextLine == dLines[dPos + 1]

\* lines 244-246: the post-image line of a file sets path
ParsePathLine ==
    /\ dAt = "scan" /\ dPos < Len(dLines)
    /\ NextLine.head = "+++ b/"
    /\ dPath' = <<NextLine.rest[1]>>
    /\ dPos' = dPos + 1
    /\ UNCHANGED <<dFiles, dLines, dHunks, dAt>>
    /\ UNCHANGED otherThanParse

\* lines 247-249: the post-image is the null device
ParseDeletionLine ==
    /\ dAt = "scan" /\ dPos < Len(dLines)
    /\ NextLine.head = "+++ /dev/null"
    /\ dPath' = Deletion
    /\ dPos' = dPos + 1
    /\ UNCHANGED <<dFiles, dLines, dHunks, dAt>>
    /\ UNCHANGED otherThanParse

\* lines 250-253: a hunk header, path not being _deletion
ParseHunkHeader ==
    /\ dAt = "scan" /\ dPos < Len(dLines)
    /\ NextLine.head = "@@ -"
    /\ ~Skips(dPath)
    /\ IF dPath = None
       THEN dAt' = "AssertionError" /\ UNCHANGED dHunks
       ELSE /\ dHunks' = Append(dHunks, HunkFromLine(dPath[1], NextLine, dPos + 1))
            /\ UNCHANGED dAt
    /\ dPos' = dPos + 1
    /\ UNCHANGED <<dFiles, dLines, dPath>>
    /\ UNCHANGED otherThanParse

\* any other line, and a hunk header while path is _deletion
ParseOtherLine ==
    /\ dAt = "scan" /\ dPos < Len(dLines)
    /\ NextLine.head \notin {"+++ b/", "+++ /dev/null"}
    /\ NextLine.head = "@@ -" => Skips(dPath)
    /\ dPos' = dPos + 1
    /\ UNCHANGED <<dFiles, dLines, dPath, dHunks, dAt>>
    /\ UNCHANGED otherThanParse

\* lines 254-256: the stream is at its end
ParseEnd ==
    /\ dAt = "scan" /\ dPos = Len(dLines)
    /\ dAt' = "returned"
    /\ UNCHANGED <<dFiles, dLines, dPos, dPath, dHunks>>
    /\ UNCHANGED otherThanParse

ParseNext ==
    \/ ParsePathLine
    \/ ParseDeletionLine
    \/ ParseHunkHeader
    \/ ParseOtherLine
    \/ ParseEnd

(***************************************************************************)
(* dig from the text of a file: the base revision modifies some lines of a *)
(* file; diff (lines 135-143) prints the hunk, blame (lines 158-165) the   *)
(* authors of the file at the parent, and find_revs correlates the two.    *)
(* What the revisions found answer is chosen when they are expanded.       *)
(***************************************************************************)
\* line 142: git diff --unified=1
Context == 1

RevC == <<"C">>
RevB == <<"B">>
RevA == <<"A">>

FileAuthors == {RevB, RevA}

Files == UNION {[1 .. n -> FileAuthors] : n \in 1 .. MaxLines}

Changes(authors) ==
    {c \in (1 .. Len(authors)) \X (1 .. Len(authors)) :
        c[1] + c[2] - 1 <= Len(authors)}

\* The origin range of the hunk that git diff prints for a modification of
\* the lines change[1] .. change[1] + change[2] - 1: the lines changed and up
\* to Context lines of the file before and after them.
OriginRange(authors, change) ==
    LET first == change[1] - Context
        last == change[1] + change[2] - 1 + Context
        lo == IF first < 1 THEN 1 ELSE first
        hi == IF last > Len(authors) THEN Len(authors) ELSE last
    IN  <<lo, hi - lo + 1>>

\* What git blame -s prints for the file at the parent; nothing when it
\* fails with the generic failure code.
BlameStream(authors, code) ==
    IF code = GenericFailure THEN <<>>
    ELSE [n \in 1 .. Len(authors) |-> [rev |-> authors[n], field |-> <<Num(n)>>]]

\* lines 126-132 and 318-320: the exit code that leaves blame_hunks as an
\* exception
Propagates(code) == code # ExpectCode /\ ~Swallowed(code)

\* What the revisions found answer: no hunk, or one hunk whose origin lines
\* blame attributes to no revision or to one.
DepHunkLists ==
    {<<>>} \cup {<<d>> : d \in {<<>>, <<RevB>>, <<RevA>>, <<<<Caret, "A">>>>}}

Expansion(frame, code) ==
    [base |-> frame.base, depth |-> frame.depth, parents |-> TRUE,
     line |-> frame.line, code |-> code, out |-> Len(printed)]

\* lines 333-343 for the base revision: the hunk of the change, blamed on the
\* file at the parent; an exception leaves every dig call.
DigExpandBase ==
    /\ pc = "run" /\ stack # <<>>
    /\ Top.at = "call" /\ Top.depth = 0
    /\ WithinDepth(Top.depth, maxDepth)
    /\ \E code \in Codes :
         LET f == FindRevs(BlameStream(eAuthors, code),
                           <<OriginRange(eAuthors, eChange)>>)
         IN  /\ repo' = Append(repo, [rev |-> Top.base, hunks |-> f.deps])
             /\ expanded' = Append(expanded, Expansion(Top, code))
             /\ IF Propagates(code) \/ f.at # "returned"
                THEN pc' = "raised" /\ stack' = <<>>
                ELSE /\ stack' = SetTop([Top EXCEPT !.at = "loop",
                                                    !.depends = Depends(f.deps),
                                                    !.idx = 1])
                     /\ UNCHANGED pc
    /\ UNCHANGED <<maxDepth, seen, printed>>
    /\ UNCHANGED otherThanWalker

\* lines 333-343 for a revision found: blame is asked when there is a hunk.
DigExpandDep ==
    /\ pc = "run" /\ stack # <<>>
    /\ Top.at = "call" /\ Top.depth > 0
    /\ WithinDepth(Top.depth, maxDepth)
    /\ \E answer \in DepHunkLists, code \in Codes :
         LET hunks == IF code = GenericFailure
                      THEN [i \in 1 .. Len(answer) |-> <<>>]
                      ELSE answer
         IN  /\ answer = <<>> => code = ExpectCode
             /\ repo' = Append(repo, [rev |-> Top.base, hunks |-> hunks])
             /\ expanded' = Append(expanded, Expansion(Top, code))
             /\ IF Propagates(code)
                THEN pc' = "raised" /\ stack' = <<>>
                ELSE /\ stack' = SetTop([Top EXCEPT !.at = "loop",
                                                    !.depends = Depends(hunks),
                                                    !.idx = 1])
                     /\ UNCHANGED pc
    /\ UNCHANGED <<maxDepth, seen, printed>>
    /\ UNCHANGED otherThanWalker

ChangeInit ==
    /\ eAuthors \in Files
    /\ eChange \in Changes(eAuthors)

ChangeIdle ==
    /\ eAuthors = <<>>
    /\ eChange = <<0, 0>>

FileWalkerInit ==
    /\ pc = "run"
    /\ maxDepth \in 0 .. MaxDepthBound
    /\ stack = <<Frame(RevC, 0, 0)>>
    /\ seen = {}
    /\ printed = <<>>
    /\ expanded = <<>>
    /\ repo = <<>>

FileWalkerNext ==
    \/ DigExpandBase
    \/ DigExpandDep
    \/ DigAtLimit
    \/ DigBoundary
    \/ DigFollowed
    \/ DigRecurse
    \/ DigReturn

(***************************************************************************)
(* Specifications.                                                         *)
(***************************************************************************)
Init == WalkerInit /\ FindRevsIdle /\ BlameIdle /\ ParseIdle /\ ChangeIdle

Next == WalkerNext

\* dig(base, max_depth) on a repository
Spec == Init /\ [][Next]_vars

\* find_revs on the hunks of one group and a blame stream
FindRevsStart ==
    WalkerIdle /\ FindRevsInit /\ BlameIdle /\ ParseIdle /\ ChangeIdle

FindRevsSpec == FindRevsStart /\ [][FindRevsNext]_vars

\* blame_hunks on hunks of several (parent, path)
BlameStart ==
    WalkerIdle /\ FindRevsIdle /\ BlameInit /\ ParseIdle /\ ChangeIdle

BlameSpec == BlameStart /\ [][BlameNext]_vars

\* parse_hunks on a diff
ParseStart ==
    WalkerIdle /\ FindRevsIdle /\ BlameIdle /\ ParseInit /\ ChangeIdle

ParseSpec == ParseStart /\ [][ParseNext]_vars

\* dig(C, max_depth) where C modifies lines of one file
FileStart ==
    FileWalkerInit /\ FindRevsIdle /\ BlameIdle /\ ParseIdle /\ ChangeInit

FileSpec == FileStart /\ [][FileWalkerNext]_vars

\* Every call is blocking and returns (the claim's proviso): a step that can
\* be taken is taken.
FairSpec == Spec /\ WF_vars(Next)

(***************************************************************************)
(* Claims about the walker.                                                *)
(***************************************************************************)
Lines == 1 .. Len(printed)

\* the dig call that line i started, if any, is in progress or has expanded
Expands(i) ==
    \/ \E k \in 1 .. Len(expanded) : expanded[k].line = i
    \/ \E k \in 1 .. Len(stack) : stack[k].line = i /\ stack[k].at = "loop"

\* line i started a dig call that is still to be entered
Called(i) == \E k \in 1 .. Len(stack) : stack[k].line = i

\* C1: when the same candidate identifier is printed more than once in one
\* traversal, every occurrence after the first carries the 'already
\* followed' annotation and starts no dig call, hence no expansion.
C1_OnlyFirstOccurrenceExpands ==
    \A i, j \in Lines :
        (i < j /\ printed[i].cand = printed[j].cand)
            => /\ printed[j].is_seen
               /\ ~Expands(j)
               /\ ~Called(j)

\* C1 witness: a plain candidate was expanded at its first occurrence and met
\* again at another depth, and the traversal is over.
C1_Witness ==
    /\ pc = "done"
    /\ \E i, j \in Lines :
         /\ i < j
         /\ printed[i].cand = printed[j].cand
         /\ printed[i].depth # printed[j].depth
         /\ \E k \in 1 .. Len(expanded) : expanded[k].line = i

\* C2: a candidate that carries the sentinel is printed without it, starts
\* no dig call and no expansion, and is a leaf: the next line printed is not
\* deeper.
C2_BoundaryIsLeaf ==
    \A i \in Lines :
        Head(printed[i].cand) = Caret
            => /\ printed[i].text = Tail(printed[i].cand)
               /\ Head(printed[i].text) # Caret
               /\ ~Expands(i)
               /\ ~Called(i)
               /\ (i < Len(printed) => printed[i + 1].depth <= printed[i].depth)

\* C2 witness: a boundary candidate was printed with room left under the
\* depth limit, it had not been seen before, and the traversal went on after
\* it and is over.
C2_Witness ==
    /\ pc = "done"
    /\ \E i \in Lines :
         /\ Head(printed[i].cand) = Caret
         /\ ~printed[i].is_seen
         /\ printed[i].depth + 1 < maxDepth
         /\ i < Len(printed)

\* C3: nothing is printed and nothing is expanded at depth >= max_depth; with
\* max_depth = 0 there is no query and no output at all.
C3_DepthBound ==
    /\ \A i \in Lines : printed[i].depth \in 0 .. maxDepth - 1
    /\ \A k \in 1 .. Len(expanded) : expanded[k].depth \in 0 .. maxDepth - 1
    /\ \A k \in 1 .. Len(stack) : stack[k].at = "loop" => stack[k].depth < maxDepth
    /\ maxDepth = 0 => printed = <<>> /\ expanded = <<>>

\* C3 witness: a new plain candidate was printed at depth max_depth - 1, the
\* dig call made for it at depth max_depth has returned, and it expanded
\* nothing.
C3_Witness ==
    /\ pc = "done"
    /\ maxDepth >= 2
    /\ \E i \in Lines :
         /\ printed[i].depth = maxDepth - 1
         /\ Head(printed[i].cand) # Caret
         /\ ~printed[i].is_seen
         /\ \A k \in 1 .. Len(expanded) : expanded[k].line # i

\* C4: every traversal finishes, whatever the dependency graph.
C4_Terminates == <>(pc = "done")

\* C4 witness: the traversal is over after following a cycle back to the base
\* revision, which was expanded a second time.
C4_Witness ==
    /\ pc = "done"
    /\ \E i \in Lines :
         /\ printed[i].cand = expanded[1].base
         /\ \E k \in 1 .. Len(expanded) : expanded[k].line = i

(***************************************************************************)
(* Claims about the attribution reader and find_revs.                      *)
(***************************************************************************)
Positions == 1 .. Len(fStream)

Parsed(p) == ParseBlameLine(fStream[p])

BrokenAt == {p \in Positions : ~Parsed(p).ok}

\* every well-formed line read so far reports its own position
Truthful == \A p \in Positions : Parsed(p).ok => Parsed(p).number = p

InRange(i, p) == p \in fHunks[i][1] .. fHunks[i][1] + fHunks[i][2] - 1

\* the revisions of the lines at the positions S, in order of first occurrence
RECURSIVE RevsAt(_, _)
RevsAt(S, n) ==
    IF n = 0 THEN <<>>
    ELSE IF n \in S THEN OrderedAdd(RevsAt(S, n - 1), fStream[n].rev)
    ELSE RevsAt(S, n - 1)

\* C6: with a single malformed line in the stream, wherever it falls,
\* find_revs raises nothing, no hunk gets a dependency from the malformed
\* line, and after the next good line the cursor is that line's number.
C6_SingleBrokenLineRecovers ==
    (Cardinality(BrokenAt) = 1 /\ Truthful)
        => /\ fr.at \in {"read", "returned"}
           /\ \A i \in 1 .. Len(fHunks) : fAdded[i] \cap BrokenAt = {}
           /\ (fStream # <<>> /\ Parsed(Len(fStream)).ok
                  => fr.line_number = <<Len(fStream)>>)

Present == Elems(KeyOrder(bHunks))

Finished == bAt \in {"returned", "raised"}

\* C5: when git blame ends with an expected failure for one key and with
\* success for all others, blame_hunks returns and every hunk of another key
\* has the deps it gets when the hunks of the failing key are not given.
C5_ExpectedFailureAbortsNothing ==
    Finished =>
        \A k \in Present :
            (/\ bCodes[k] \in {SigPipe, GenericFailure}
             /\ \A o \in Present \ {k} : bCodes[o] = ExpectCode)
                => /\ bAt = "returned"
                   /\ LET others == SelectSeq(bHunks, LAMBDA h : h.key # k)
                          alone == BlameHunks(others, bCodes).deps
                      IN  \A i \in 1 .. Len(bHunks) :
                              bHunks[i].key # k =>
                                  bDeps[i] = alone[Cardinality({j \in 1 .. i : bHunks[j].key # k})]

\* the orders of the hunks given that keep the order inside every key:
\* position m of the new order holds the hunk that was at place[m]
Reorderings ==
    {place \in [1 .. Len(bHunks) -> 1 .. Len(bHunks)] :
        /\ \A m, n \in 1 .. Len(bHunks) : place[m] = place[n] => m = n
        /\ \A m, n \in 1 .. Len(bHunks) :
               (m < n /\ bHunks[place[m]].key = bHunks[place[n]].key)
                   => place[m] < place[n]}

\* C10: when no blame ends with a fatal code, every hunk gets the same deps
\* under every reordering of the hunks that keeps the order inside each key.
C10_GroupingIndependence ==
    (Finished /\ \A k \in Present : bCodes[k] \in {ExpectCode, SigPipe, GenericFailure})
        => \A place \in Reorderings :
               LET reordered == [m \in 1 .. Len(bHunks) |-> bHunks[place[m]]]
                   deps == BlameHunks(reordered, bCodes).deps
               IN  \A m \in 1 .. Len(bHunks) : deps[m] = bDeps[place[m]]

(***************************************************************************)
(* Claims about parse_hunks.                                               *)
(***************************************************************************)
\* the hunks collected from the lines of file i
HunksOf(i) == {k \in 1 .. Len(dHunks) : dLines[dHunks[k].line].file = i}

\* the hunk headers of file i read so far
HeadersRead(i) ==
    {n \in 1 .. dPos : dLines[n].file = i /\ dLines[n].head = "@@ -"}

\* C8: a file whose pre-image is the null device (a path the child
\* introduced) contributes no hunk.
C8_AddedFileHasNoHunks ==
    \A i \in 1 .. Len(dFiles) : dFiles[i].kind = "added" => HunksOf(i) = {}

\* C9: a file whose post-image is the null device contributes no hunk, and
\* every hunk header read of a file that the child keeps or introduces yields a
\* hunk with the path of that file, also after a deleted file.
C9_DeletedFileHasNoHunks ==
    /\ dAt # "AssertionError"
    /\ \A i \in 1 .. Len(dFiles) :
         IF dFiles[i].kind = "deleted"
         THEN HunksOf(i) = {}
         ELSE /\ {dHunks[k].line : k \in HunksOf(i)} = HeadersRead(i)
              /\ \A k \in HunksOf(i) : dHunks[k].path = dFiles[i].path

\* C9 witness: parse_hunks has returned from a diff in which a modified file
\* follows a deleted one; the header of the deleted file was read and the
\* hunk of the modified file was collected.
C9_Witness ==
    /\ dAt = "returned"
    /\ \E i, j \in 1 .. Len(dFiles) :
         /\ i < j
         /\ dFiles[i].kind = "deleted" /\ HeadersRead(i) # {}
         /\ dFiles[j].kind = "modified" /\ HunksOf(j) # {}

(***************************************************************************)
(* Claims about dig on the text of a file.                                 *)
(***************************************************************************)
Changed == eChange[1] .. eChange[1] + eChange[2] - 1

\* the base modifies only lines last touched by B, the other lines of the
\* file have another author, and blame printed the file
OnlyLinesOfB ==
    /\ \A n \in 1 .. Len(eAuthors) : eAuthors[n] = RevB <=> n \in Changed
    /\ expanded # <<>> /\ expanded[1].code \in {ExpectCode, SigPipe}

\* C11: dig(C, 1), C modifying only lines that B touched last, prints one
\* line, for B, at depth 0 and not annotated, and expands nothing but C.
C11_EndToEnd ==
    (pc = "done" /\ maxDepth = 1 /\ OnlyLinesOfB)
        => /\ printed = <<Line(RevB, 0, FALSE)>>
           /\ Len(expanded) = 1

(***************************************************************************)
(* More claims about the walker.                                           *)
(***************************************************************************)
\* the revision that line j prints was expanded before line j was printed
ExpandedBefore(j) ==
    \E k \in 1 .. Len(expanded) :
        expanded[k].base = printed[j].text /\ expanded[k].line < j

\* the candidate of line j was printed before line j
PrintedBefore(j) == \E i \in 1 .. j - 1 : printed[i].cand = printed[j].cand

\* C12, as stated: a line carries the annotation exactly when its revision
\* was expanded earlier in the traversal.
C12_AnnotatedIffExpanded ==
    \A j \in Lines : printed[j].is_seen <=> ExpandedBefore(j)

\* C12, amended: a line carries the annotation exactly when the same
\* candidate identifier, sentinel included, was printed earlier in the
\* traversal, whether or not the revision was expanded.
C12_AnnotatedIffPrintedBefore ==
    \A j \in Lines : printed[j].is_seen <=> PrintedBefore(j)

\* C12 witness: the traversal is over and a line carries the annotation for a
\* revision that was printed before and never expanded.
C12_Witness ==
    /\ pc = "done"
    /\ \E j \in Lines :
         /\ printed[j].is_seen
         /\ PrintedBefore(j)
         /\ \A k \in 1 .. Len(expanded) : expanded[k].base # printed[j].text

(***************************************************************************)
(* More claims about parse_hunks.                                          *)
(***************************************************************************)
\* the range written in the header of hunk k: 1 the origin, 2 the target
Written(k, side) == dLines[dHunks[k].line].rest[side]

\* the range (start, count) that a written range stands for
Stands(range, written) ==
    /\ Len(range) = 2
    /\ range[1] = written[1]
    /\ range[2] = IF Len(written) = 2 THEN written[2] ELSE 1

\* C13: of every hunk collected, first and second are the start and the
\* count written in the header, the count being 1 when the header omits it
\* and the count written, 0 included, otherwise.
C13_RangeDefaulting ==
    \A k \in 1 .. Len(dHunks) :
        /\ Stands(dHunks[k].first, Written(k, 1))
        /\ Stands(dHunks[k].second, Written(k, 2))

\* C13 witness: parse_hunks has returned a hunk of a header that omits the
\* origin count and writes the target count, and a hunk of a header that
\* writes the count 0.
C13_Witness ==
    /\ dAt = "returned"
    /\ \E k \in 1 .. Len(dHunks) :
         /\ Len(Written(k, 1)) = 1 /\ Len(Written(k, 2)) = 2
         /\ dHunks[k].first[2] = 1
         /\ dHunks[k].second = Written(k, 2)
    /\ \E k \in 1 .. Len(dHunks) :
         /\ Written(k, 1) = <<0, 0>>
         /\ dHunks[k].first = <<0, 0>>

\* C14: in one traversal no revision is expanded twice, the base included.
C14_NoRevisionExpandedTwice ==
    \A k, l \in 1 .. Len(expanded) :
        expanded[k].base = expanded[l].base => k = l

(***************************************************************************)
(* More claims about the attribution reader and find_revs.                 *)
(***************************************************************************)
\* no line read so far is malformed and every line reports its position
WellFormed == BrokenAt = {} /\ Truthful

\* the lines read so far that lie in the origin range of hunk i
RangeRead(i) == {p \in Positions : InRange(i, p)}

\* C15: on a well-formed stream find_revs raises nothing and the deps of
\* every hunk are the revisions of the lines of its origin range, in order of
\* first occurrence; the lines outside the ranges add nothing, and a hunk of
\* count 0 has no deps and leaves the hunks after it their own lines.
C15_DepsOfOriginRange ==
    WellFormed
        => /\ fr.at \in {"read", "returned"}
           /\ \A i \in 1 .. Len(fHunks) :
                fr.deps[i] = RevsAt(RangeRead(i), Len(fStream))

\* C15 witness: find_revs has returned from a well-formed stream; a hunk of
\* count 0 has no deps, and a later hunk that does not start at line 1 has
\* the two revisions of its two lines.
C15_Witness ==
    /\ fr.at = "returned"
    /\ WellFormed
    /\ \E i, j \in 1 .. Len(fHunks) :
         /\ i < j
         /\ fHunks[i][1] > 0 /\ fHunks[i][2] = 0 /\ fr.deps[i] = <<>>
         /\ fHunks[j][2] = 2 /\ Len(fr.deps[j]) = 2
         /\ Cardinality(RangeRead(j)) = 2

\* C16: a read of a well-parsed line outside recovery mode whose number is
\* not the cursor plus one ends in an AssertionError; every other read of a
\* well-parsed line raises nothing and leaves the cursor at the number that
\* the line reports.
C16_ContinuityAssertion ==
    [][Len(fStream') = Len(fStream) + 1
          => LET p == ParseBlameLine(fStream'[Len(fStream')])
             IN  p.ok
                   => IF ~fr.recover /\ p.number # fr.line_number[1] + 1
                      THEN fr.at' = "AssertionError"
                      ELSE /\ fr.at' # "AssertionError"
                           /\ fr.line_number' = <<p.number>>]_vars

\* C16 witness: after a well-parsed line, a second well-parsed line reported
\* a number that is not the next one, and find_revs ended in an
\* AssertionError.
C16_Witness ==
    /\ fr.at = "AssertionError"
    /\ Len(fStream) >= 2
    /\ Parsed(Len(fStream)).ok /\ Parsed(Len(fStream) - 1).ok
    /\ Parsed(Len(fStream)).number # Parsed(Len(fStream) - 1).number + 1

(***************************************************************************)
(* Claims about failures of git blame under dig.                           *)
(***************************************************************************)
\* an exit code other than success and the two expected failures
Fatal(code) == code \notin {ExpectCode, SigPipe, GenericFailure}

\* C17: when the blame of an expansion ends with a fatal code, the
\* exception leaves blame_hunks and every dig call in progress, this
\* expansion is the last one, and no line is printed after it.
C17_FatalCodePropagates ==
    \A k \in 1 .. Len(expanded) :
        Fatal(expanded[k].code)
            => /\ pc = "raised"
               /\ stack = <<>>
               /\ k = Len(expanded)
               /\ Len(printed) = expanded[k].out

\* C17 witness: the blame of a revision found at depth 1 or deeper ended
\* with a fatal code while the base had a second candidate still to print;
\* the traversal has ended with the exception and one line at depth 0.
C17_Witness ==
    /\ pc = "raised"
    /\ Len(expanded) >= 2
    /\ expanded[Len(expanded)].depth >= 1
    /\ Fatal(expanded[Len(expanded)].code)
    /\ Len(Depends(repo[1].hunks)) = 2
    /\ Cardinality({j \in Lines : printed[j].depth = 0}) = 1

(***************************************************************************)
(* The order of the output.                                                *)
(***************************************************************************)
\* The line under which line j is indented: the nearest line before j that
\* is less deep; 0 for a line at depth 0, -1 when there is no such line.
ParentOf(j) ==
    LET above == {i \in 1 .. j - 1 : printed[i].depth < printed[j].depth}
    IN  IF printed[j].depth = 0 THEN 0
        ELSE IF above = {} THEN -1
        ELSE CHOOSE i \in above : \A m \in above : m <= i

\* the lines indented directly under the line that started expansion k
Kids(k) ==
    {j \in Lines : /\ printed[j].depth = expanded[k].depth
                   /\ ParentOf(j) = expanded[k].line}

\* the deps of the hunks of a revision, hunk after hunk
RECURSIVE Flat(_)
Flat(hunks) == IF hunks = <<>> THEN <<>> ELSE Head(hunks) \o Flat(Tail(hunks))

HunksOfRev(base) ==
    repo[CHOOSE i \in 1 .. Len(repo) : repo[i].rev = base].hunks

\* the place of the first appearance of c
FirstAt(flat, c) ==
    CHOOSE n \in 1 .. Len(flat) : flat[n] = c /\ \A m \in 1 .. n - 1 : flat[m] # c

\* the dig call of expansion k has returned
Returned(k) == \A n \in 1 .. Len(stack) : stack[n].line # expanded[k].line

\* C18: every line is indented directly under the line whose expansion
\* printed it, so that the lines of a candidate's subtree stand between its
\* line and the next candidate's; and the lines of one expansion are its
\* distinct candidates, each once, in the order of first appearance over the
\* hunks, all of them once the call has returned.
C18_OutputOrder ==
    /\ \A j \in Lines :
         \E k \in 1 .. Len(expanded) :
             /\ expanded[k].line = ParentOf(j)
             /\ expanded[k].depth = printed[j].depth
    /\ \A j \in Lines :
         (j < Len(printed) /\ printed[j + 1].depth > printed[j].depth)
             => /\ printed[j + 1].depth = printed[j].depth + 1
                /\ ~printed[j].is_seen
                /\ Head(printed[j].cand) # Caret
    /\ \A k \in 1 .. Len(expanded) :
         LET flat == Flat(HunksOfRev(expanded[k].base))
             kids == Kids(k)
         IN  /\ \A j \in kids : printed[j].cand \in Elems(flat)
             /\ \A i, j \in kids :
                    i < j => FirstAt(flat, printed[i].cand)
                                 < FirstAt(flat, printed[j].cand)
             /\ \A j \in kids : \A c \in Elems(flat) :
                    FirstAt(flat, c) < FirstAt(flat, printed[j].cand)
                        => \E i \in kids : i < j /\ printed[i].cand = c
             /\ Returned(k) => {printed[j].cand : j \in kids} = Elems(flat)

\* C18 witness: the traversal is over; an expansion with two hunks printed
\* two candidates, and the subtree of the first stands between their lines.
C18_Witness ==
    /\ pc = "done"
    /\ \E k \in 1 .. Len(expanded) :
         /\ Len(HunksOfRev(expanded[k].base)) = 2
         /\ \E i, j \in Kids(k) :
              /\ i + 1 < j
              /\ printed[i + 1].depth > printed[i].depth
              /\ FirstAt(Flat(HunksOfRev(expanded[k].base)), printed[j].cand) = 2

\* C19: every revision added to the deps of a hunk comes from a line whose
\* reported number lies in the origin range of the hunk.
C19_DepsReportNumbersInRange ==
    \A i \in 1 .. Len(fHunks) :
        \A p \in fAdded[i] : InRange(i, Parsed(p).number)

====
